---- MODULE Spec2Model ----
(***************************************************************************)
(* Job log streaming of pyghost (JobsApiClient.get_logs_async and the      *)
(* helpers it calls), as a state machine.  One invocation of               *)
(* get_logs_async is followed from its first statement to its return or    *)
(* to the exception that leaves it; the Cloud Deploy server (job status,   *)
(* HTTP responses, pushed log messages) and the caller's two callbacks     *)
(* are the environment.                                                    *)
(***************************************************************************)
EXTENDS Integers, Sequences, FiniteSets, TLC

VARIABLES
    wait_for_start,  \* parameter of get_logs_async
    no_color,        \* parameter of get_logs_async
    pc,              \* position of the invocation in get_logs_async
    job,             \* job['status'] of the last retrieved job record
    serverStatus,    \* status of the job on the server
    retrieves,       \* number of self.retrieve(job_id) calls issued
    sleepTime,       \* seconds spent in time.sleep while waiting for start
    probes,          \* number of GET /socket.io/ requests issued
    tokenFetches,    \* number of _get_websocket_token calls
    token,           \* value returned by _get_websocket_token
    openSessions,    \* SocketIO sessions currently open
    opened,          \* SocketIO sessions ever opened
    released,        \* SocketIO sessions ever released
    jobAtOpen,       \* value of job when the session was opened
    emitted,         \* events emitted on the session, in order
    registered,      \* events a handler is registered for
    loopWaits,       \* socketIO.wait calls made by the streaming loop
    drainWaits,      \* socketIO.wait calls made after the loop
    arrived,         \* messages the channel handed to callback, in order
    msgs,            \* arguments success_handler was invoked with, in order
    errs,            \* arguments exception_handler was invoked with, in order
    success_raises,  \* whether the caller's success_handler raises
    exception_raises,\* when the caller's exception_handler raises
    exc,             \* exception that left get_logs_async, or NoExc
    check_ws,        \* check_ws.status_code of the GET /socket.io/ probe, 0 before
    lastRetrieve,    \* how the HTTP exchange of the last retrieve went
    tokenRequest,    \* whether the token request gave a JSON object: ok or failed
    sanitizer,       \* function of utils.py that is called on its own, or "none"
    input,           \* value that function is first called with
    output           \* results of its successive calls, each on the last result

vars == <<wait_for_start, no_color, pc, job, serverStatus, retrieves, sleepTime,
          probes, tokenFetches, token, openSessions, opened, released, jobAtOpen,
          emitted, registered, loopWaits, drainWaits, arrived, msgs, errs,
          success_raises, exception_raises, exc, check_ws, lastRetrieve,
          tokenRequest, sanitizer, input, output>>

\* the variables of the calls of utils.py
utils == <<sanitizer, input, output>>

(***************************************************************************)
(* Bounds of the model.                                                    *)
(***************************************************************************)
MaxRetrieves == 3
MaxMessages == 2
MaxLen == 3

(***************************************************************************)
(* JobStatuses                                                             *)
(***************************************************************************)
INIT == "init"
STARTED == "started"
JobStatuses == {"init", "started", "cancelled", "done", "failed", "aborted"}
TerminalStatuses == JobStatuses \ {INIT, STARTED}

NoJob == "nojob"
NoExc == "none"

(***************************************************************************)
(* Python values.  A text (str) is the sequence of its code points, a      *)
(* bytes value the sequence of its bytes.  A call either returns a value   *)
(* or raises an exception.                                                 *)
(***************************************************************************)
PyStr(s) == [type |-> "str", val |-> s]
PyBytes(b) == [type |-> "bytes", val |-> b]
PyFalse == [type |-> "bool", val |-> <<>>]

Exception(t, m, a) == [type |-> t, msg |-> m, arg |-> a]
NoException == Exception("none", "", <<>>)
Returns(v) == [ok |-> TRUE, val |-> v, exc |-> NoException]
Raises(e) == [ok |-> FALSE, val |-> PyFalse, exc |-> e]

\* ApiClientException(text) for a literal message, and for a text taken from data
ApiClientException(m) == Exception("ApiClientException", m, <<>>)
ApiClientExceptionOf(a) == Exception("ApiClientException", "", a)

(***************************************************************************)
(* str.replace(old, new): leftmost, non-overlapping occurrences.           *)
(***************************************************************************)
StartsWithAt(s, i, old) ==
    /\ i + Len(old) - 1 <= Len(s)
    /\ \A k \in 1..Len(old) : s[i + k - 1] = old[k]

RECURSIVE ReplaceFrom(_, _, _, _)
ReplaceFrom(s, i, old, new) ==
    IF i > Len(s) THEN <<>>
    ELSE IF StartsWithAt(s, i, old)
         THEN new \o ReplaceFrom(s, i + Len(old), old, new)
         ELSE <<s[i]>> \o ReplaceFrom(s, i + 1, old, new)

Replace(s, old, new) == ReplaceFrom(s, 1, old, new)

(***************************************************************************)
(* trim_xml_html_tags                                                      *)
(***************************************************************************)
\* '</div><div class="panel panel-default">'
PanelTag == <<60, 47, 100, 105, 118, 62, 60, 100, 105, 118, 32, 99, 108, 97,
              115, 115, 61, 34, 112, 97, 110, 101, 108, 32, 112, 97, 110, 101,
              108, 45, 100, 101, 102, 97, 117, 108, 116, 34, 62>>
NewLine == <<10>>

\* End of the match of '<[^<]+?>' that starts at i, or 0 when there is none:
\* '<', then the fewest (at least one) characters other than '<', then '>'.
TagEnd(s, i) ==
    IF i > Len(s) \/ s[i] # 60 THEN 0
    ELSE LET ends == {k \in (i + 2)..Len(s) :
                         /\ s[k] = 62
                         /\ \A j \in (i + 1)..(k - 1) : s[j] # 60}
         IN IF ends = {} THEN 0
            ELSE CHOOSE k \in ends : \A k2 \in ends : k <= k2

RECURSIVE SubTagsFrom(_, _)
SubTagsFrom(s, i) ==
    IF i > Len(s) THEN <<>>
    ELSE IF TagEnd(s, i) # 0 THEN SubTagsFrom(s, TagEnd(s, i) + 1)
         ELSE <<s[i]>> \o SubTagsFrom(s, i + 1)

\* the same with '<div class="panel panel-default">' alone as the divider
trim_xml_html_tags_div(data_str) ==
    IF data_str.type # "str"
    THEN Raises(Exception("TypeError", "", <<>>))
    ELSE Returns(PyStr(SubTagsFrom(Replace(data_str.val,
                                           SubSeq(PanelTag, 7, Len(PanelTag)),
                                           NewLine), 1)))

\* re.sub('<[^<]+?>', '', data_str.replace(PanelTag, "\n")); data_str is a str
trim_xml_html_tags(data_str) ==
    IF data_str.type # "str"
    THEN Raises(Exception("TypeError", "", <<>>))
    ELSE Returns(PyStr(SubTagsFrom(Replace(data_str.val, PanelTag, NewLine), 1)))

(***************************************************************************)
(* bytes.decode('utf-8'), strict                                           *)
(***************************************************************************)
IsCont(b, i, lo, hi) == i <= Len(b) /\ b[i] >= lo /\ b[i] <= hi

\* Number of bytes of the well-formed UTF-8 sequence starting at i, 0 if none
Utf8Width(b, i) ==
    LET c == b[i] IN
    IF c < 128 THEN 1
    ELSE IF c >= 194 /\ c <= 223
         THEN IF IsCont(b, i + 1, 128, 191) THEN 2 ELSE 0
    ELSE IF c >= 224 /\ c <= 239
         THEN IF /\ IsCont(b, i + 1, IF c = 224 THEN 160 ELSE 128,
                                      IF c = 237 THEN 159 ELSE 191)
                 /\ IsCont(b, i + 2, 128, 191) THEN 3 ELSE 0
    ELSE IF c >= 240 /\ c <= 244
         THEN IF /\ IsCont(b, i + 1, IF c = 240 THEN 144 ELSE 128,
                                      IF c = 244 THEN 143 ELSE 191)
                 /\ IsCont(b, i + 2, 128, 191)
                 /\ IsCont(b, i + 3, 128, 191) THEN 4 ELSE 0
    ELSE 0

Utf8CodePoint(b, i, w) ==
    IF w = 1 THEN b[i]
    ELSE IF w = 2 THEN (b[i] % 32) * 64 + (b[i + 1] % 64)
    ELSE IF w = 3 THEN (b[i] % 16) * 4096 + (b[i + 1] % 64) * 64 + (b[i + 2] % 64)
    ELSE (b[i] % 8) * 262144 + (b[i + 1] % 64) * 4096
             + (b[i + 2] % 64) * 64 + (b[i + 3] % 64)

RECURSIVE Utf8WellFormedFrom(_, _)
Utf8WellFormedFrom(b, i) ==
    \/ i > Len(b)
    \/ /\ Utf8Width(b, i) # 0
       /\ Utf8WellFormedFrom(b, i + Utf8Width(b, i))

RECURSIVE Utf8DecodeFrom(_, _)
Utf8DecodeFrom(b, i) ==
    IF i > Len(b) THEN <<>>
    ELSE <<Utf8CodePoint(b, i, Utf8Width(b, i))>>
             \o Utf8DecodeFrom(b, i + Utf8Width(b, i))

\* data_str.decode('utf-8'): only bytes has the method in Python 3
Decode(data_str) ==
    IF data_str.type # "bytes"
    THEN Raises(Exception("AttributeError", "'str' object has no attribute 'decode'", <<>>))
    ELSE IF ~Utf8WellFormedFrom(data_str.val, 1)
         THEN Raises(Exception("UnicodeDecodeError", "", <<>>))
         ELSE Returns(PyStr(Utf8DecodeFrom(data_str.val, 1)))

(***************************************************************************)
(* trim_ansi_tags                                                          *)
(***************************************************************************)
RECURSIVE SkipClass(_, _, _, _)
\* first position at or after i whose character is outside lo..hi
SkipClass(s, i, lo, hi) ==
    IF i <= Len(s) /\ s[i] >= lo /\ s[i] <= hi
    THEN SkipClass(s, i + 1, lo, hi) ELSE i

\* End of the match of \x1B\[[0-?]*[ -/]*[@-~] that starts at i, or 0
AnsiEnd(s, i) ==
    IF ~(i + 1 <= Len(s) /\ s[i] = 27 /\ s[i + 1] = 91) THEN 0
    ELSE LET k == SkipClass(s, SkipClass(s, i + 2, 48, 63), 32, 47)
         IN IF k <= Len(s) /\ s[k] >= 64 /\ s[k] <= 126 THEN k ELSE 0

RECURSIVE SubAnsiFrom(_, _)
SubAnsiFrom(s, i) ==
    IF i > Len(s) THEN <<>>
    ELSE IF AnsiEnd(s, i) # 0 THEN SubAnsiFrom(s, AnsiEnd(s, i) + 1)
         ELSE <<s[i]>> \o SubAnsiFrom(s, i + 1)

\* re.sub(r'\x1B\[[0-?]*[ -/]*[@-~]', '', data_str.decode('utf-8'))
trim_ansi_tags(data_str) ==
    LET d == Decode(data_str)
    IN IF ~d.ok THEN d ELSE Returns(PyStr(SubAnsiFrom(d.val.val, 1)))

(***************************************************************************)
(* base64.b64decode(s) with the default validate=False: characters outside *)
(* the alphabet are skipped, '=' ends the data once a quad is padded, and  *)
(* an unfinished quad is an error (binascii.Error).                        *)
(***************************************************************************)
\* 6-bit value of a character of the base64 alphabet, 64 for any other
B64Value(c) ==
    IF c >= 65 /\ c <= 90 THEN c - 65
    ELSE IF c >= 97 /\ c <= 122 THEN c - 97 + 26
    ELSE IF c >= 48 /\ c <= 57 THEN c - 48 + 52
    ELSE IF c = 43 THEN 62
    ELSE IF c = 47 THEN 63
    ELSE 64

BinasciiError == Exception("binascii.Error", "", <<>>)

RECURSIVE a2b_base64(_, _, _, _, _, _)
a2b_base64(s, i, quad_pos, leftchar, pads, out) ==
    IF i > Len(s)
    THEN IF quad_pos # 0 THEN Raises(BinasciiError) ELSE Returns(PyBytes(out))
    ELSE IF s[i] = 61
         THEN IF quad_pos >= 2 /\ quad_pos + pads + 1 >= 4
              THEN Returns(PyBytes(out))
              ELSE a2b_base64(s, i + 1, quad_pos, leftchar,
                              IF quad_pos >= 2 THEN pads + 1 ELSE pads, out)
    ELSE LET this_ch == B64Value(s[i]) IN
         IF this_ch >= 64
         THEN a2b_base64(s, i + 1, quad_pos, leftchar, pads, out)
         ELSE IF quad_pos = 0
              THEN a2b_base64(s, i + 1, 1, this_ch, 0, out)
         ELSE IF quad_pos = 1
              THEN a2b_base64(s, i + 1, 2, this_ch % 16, 0,
                              Append(out, leftchar * 4 + this_ch \div 16))
         ELSE IF quad_pos = 2
              THEN a2b_base64(s, i + 1, 3, this_ch % 4, 0,
                              Append(out, leftchar * 16 + this_ch \div 4))
         ELSE a2b_base64(s, i + 1, 0, 0, 0, Append(out, leftchar * 64 + this_ch))

\* a str argument is first encoded as ASCII
b64decode(s) ==
    IF s.type = "str" /\ \E k \in 1..Len(s.val) : s.val[k] >= 128
    THEN Raises(Exception("ValueError", "string argument should contain only ASCII characters", <<>>))
    ELSE a2b_base64(s.val, 1, 0, 0, 0, <<>>)

(***************************************************************************)
(* ApiClient._do_request, retrieve and _get_websocket_token.  The HTTP     *)
(* exchange is an input: whether the connection succeeds, the status code  *)
(* and whether the body parses as JSON.                                    *)
(***************************************************************************)
HttpResponses == [conn : {"ok", "ConnectionError"},
                  status_code : {200, 204, 404, 500},
                  json : BOOLEAN]

OkResponses == {resp \in HttpResponses :
                    resp.conn = "ok" /\ resp.status_code < 300 /\ resp.json}

\* what went wrong in an exchange: nothing, the transport, the status, the body
Exchange(resp) ==
    IF resp.conn # "ok" THEN "transport"
    ELSE IF resp.status_code >= 300 THEN "status"
    ELSE IF ~resp.json THEN "parse"
    ELSE "ok"

\* returns the decoded body `data`, or raises ApiClientException
_do_request(resp, data) ==
    IF resp.conn = "ConnectionError"
    THEN Raises(ApiClientException("Error while sending request to {}"))
    ELSE IF resp.status_code >= 300
         THEN Raises(ApiClientException("Error while calling Cloud Deploy : [{}] {}"))
         ELSE IF ~resp.json
              THEN Raises(ApiClientException("Error while reading response from {}"))
              ELSE Returns(data)

\* retrieve(job_id) -> _do_retrieve -> _do_request; data is the job's status
retrieve(resp, status) == _do_request(resp, status)

\* shapes of the body of GET /jobs/{id}/websocket_token/
TokenBodies == {"token", "notoken", "notdict"}
\* 'tok'
TokenText == <<116, 111, 107>>
NoToken == [type |-> "none", val |-> <<>>]

\* .get('token', '') on the decoded body; a body that is no dict has no .get
GetToken(body) ==
    IF body = "notdict"
    THEN Raises(Exception("AttributeError", "object has no attribute 'get'", <<>>))
    ELSE IF body = "notoken" THEN Returns(PyStr(<<>>))
         ELSE Returns(PyStr(TokenText))

\* the same without the try/except of lines 647-650
_get_websocket_token_uncaught(resp, body) ==
    LET r == _do_request(resp, body)
    IN IF ~r.ok THEN r ELSE GetToken(body)

\* _do_request(path, params={}).get('token', ''), False on any exception
_get_websocket_token(resp, body) ==
    LET r == _do_request(resp, body)
    IN IF ~r.ok \/ ~GetToken(body).ok THEN Returns(PyFalse)
       ELSE GetToken(body)

\* Python truth value of a token
Falsy(v) == v = PyFalse \/ (v.type = "str" /\ v.val = <<>>)

(***************************************************************************)
(* The message handler `callback(args)` of get_logs_async.  args is the    *)
(* inbound message, a dict with some of the keys error, raw, html.         *)
(* sh tells whether success_handler raises when invoked, eh1 and eh2       *)
(* whether the first and the second invocation of exception_handler by     *)
(* this call raise.  The result lists the arguments success_handler and    *)
(* exception_handler were invoked with, and the exception that leaves      *)
(* callback (NoException when it returns).                                 *)
(*                                                                         *)
(* The callbacks are the caller's: success_handler either returns or       *)
(* raises whenever it is invoked; exception_handler never raises, raises   *)
(* for the first exception a call of callback hands it but not for its own *)
(* exception handed back to it ("once"), or raises whenever invoked.       *)
(***************************************************************************)
ExceptionBehaviours == {"never", "once", "always"}
SuccessHandlerError == Exception("CallbackError", "success_handler", <<>>)
ExceptionHandlerError == Exception("CallbackError", "exception_handler", <<>>)
KeyError(k) == Exception("KeyError", k, <<>>)

Handled(m, e, x) == [msgs |-> m, errs |-> e, exc |-> x]

\* lines 614-621: the text to deliver, or the exception of the pipeline
Transform(args, strip) ==
    LET data_str ==
            IF "raw" \notin DOMAIN args
            THEN IF "html" \notin DOMAIN args
                 THEN Raises(KeyError("html"))
                 ELSE LET t == trim_xml_html_tags(args.html)
                      IN IF ~t.ok THEN t
                         ELSE Returns(PyStr(t.val.val \o NewLine))
            ELSE b64decode(args.raw)
    IN IF data_str.ok /\ strip THEN trim_ansi_tags(data_str.val) ELSE data_str

\* an except clause that hands e to exception_handler and raises it again
ExceptReraise(m, errsBefore, e, ehRaises) ==
    Handled(m, Append(errsBefore, e),
            IF ehRaises THEN ExceptionHandlerError ELSE e)

\* except Exception as e: exception_handler(e)
Except(m, errsBefore, e, ehRaises) ==
    Handled(m, Append(errsBefore, e),
            IF ehRaises THEN ExceptionHandlerError ELSE NoException)

\* lines 614-622 inside the try: transform, then success_handler(data_str);
\* eh tells whether the exception_handler call of the except clause raises
Deliver(args, strip, sh, eh) ==
    LET d == Transform(args, strip)
    IN IF ~d.ok THEN Except(<<>>, <<>>, d.exc, eh)
       ELSE IF sh THEN Except(<<d.val>>, <<>>, SuccessHandlerError, eh)
            ELSE Handled(<<d.val>>, <<>>, NoException)

\* callback without the return of line 613: an error message goes on to be
\* transformed and delivered
callback_fallthrough(args, strip, sh, eh1, eh2) ==
    IF "error" \in DOMAIN args
    THEN IF eh1
         THEN Except(<<>>, <<ApiClientExceptionOf(args.error.val)>>,
                     ExceptionHandlerError, eh2)
         ELSE LET h == Deliver(args, strip, sh, eh2)
              IN Handled(h.msgs, <<ApiClientExceptionOf(args.error.val)>> \o h.errs,
                         h.exc)
    ELSE Deliver(args, strip, sh, eh1)

\* callback without the try/except of lines 610 and 623-624 around the
\* transformation: its exception leaves callback
callback_uncaught(args, strip, sh, eh1, eh2) ==
    IF "error" \in DOMAIN args
    THEN IF eh1
         THEN Except(<<>>, <<ApiClientExceptionOf(args.error.val)>>,
                     ExceptionHandlerError, eh2)
         ELSE Handled(<<>>, <<ApiClientExceptionOf(args.error.val)>>, NoException)
    ELSE IF ~Transform(args, strip).ok
         THEN Handled(<<>>, <<>>, Transform(args, strip).exc)
         ELSE Deliver(args, strip, sh, eh1)

\* callback ignoring a message that has neither 'raw' nor 'html'
callback_silent(args, strip, sh, eh1, eh2) ==
    IF "error" \in DOMAIN args
    THEN IF eh1
         THEN Except(<<>>, <<ApiClientExceptionOf(args.error.val)>>,
                     ExceptionHandlerError, eh2)
         ELSE Handled(<<>>, <<ApiClientExceptionOf(args.error.val)>>, NoException)
    ELSE IF "raw" \notin DOMAIN args /\ "html" \notin DOMAIN args
         THEN Handled(<<>>, <<>>, NoException)
         ELSE Deliver(args, strip, sh, eh1)

callback(args, strip, sh, eh1, eh2) ==
    IF "error" \in DOMAIN args
    THEN IF eh1
         THEN Except(<<>>, <<ApiClientExceptionOf(args.error.val)>>,
                     ExceptionHandlerError, eh2)
         ELSE Handled(<<>>, <<ApiClientExceptionOf(args.error.val)>>, NoException)
    ELSE Deliver(args, strip, sh, eh1)

(***************************************************************************)
(* Inbound messages of the 'job' event the server may push.                *)
(***************************************************************************)
\* 'boom'
Boom == PyStr(<<98, 111, 111, 109>>)
\* base64 of 'hi'
RawHi == PyStr(<<97, 71, 107, 61>>)
\* base64 of '\x1B[32mOK\x1B[0m'
RawAnsi == PyStr(<<71, 49, 115, 122, 77, 109, 49, 80, 83, 120, 116, 98, 77, 71, 48, 61>>)
\* 'aGk': a quad that is not padded
RawBadPadding == PyStr(<<97, 71, 107>>)
\* base64 of the single byte 0xFF, which is not UTF-8
RawNotUtf8 == PyStr(<<47, 119, 61, 61>>)
\* '<h1>hi</h1>'
HtmlHi == PyStr(<<60, 104, 49, 62, 104, 105, 60, 47, 104, 49, 62>>)

Messages ==
    { [error |-> Boom],
      [error |-> Boom, raw |-> RawHi],
      [raw |-> RawHi],
      [raw |-> RawAnsi],
      [raw |-> RawBadPadding],
      [raw |-> RawNotUtf8],
      [html |-> HtmlHi],
      [status |-> Boom] }

(***************************************************************************)
(* get_logs_async                                                          *)
(***************************************************************************)
JobId == "job_id"

\* line 600 and line 604
RefusalError == ApiClientException("The job is not started.")
UnavailableError == ApiClientException("Websocket server is unavailable.")

\* an exception leaves get_logs_async
Propagate(e) == exc' = e.type /\ pc' = "raised"

\* variants of the conditions below, as a slip in the code would make them
WaitConditionOnce == wait_for_start /\ job = INIT /\ sleepTime = 0
NotStartedWrongStatus == job = STARTED
UnavailableServerErrorOnly(resp) == resp.status_code >= 500
StreamConditionUntilDone == job # "done"
StreamConditionNotInit == job # INIT
SocketIOExitLeak == UNCHANGED <<openSessions, released>>

\* line 595: while wait_for_start and job['status'] == JobStatuses.INIT.value
WaitCondition == wait_for_start /\ job = INIT
\* line 599: if job['status'] == JobStatuses.INIT.value
NotStarted == job = INIT
\* line 603: if not check_ws.status_code == 200
Unavailable(resp) == ~(resp.status_code = 200)
\* line 635: while job['status'] == JobStatuses.STARTED.value
StreamCondition == job = STARTED

\* with SocketIO(...) as socketIO: entering and leaving the block
SocketIOEnter ==
    /\ openSessions' = openSessions + 1
    /\ opened' = opened + 1
SocketIOExit ==
    /\ openSessions' = openSessions - 1
    /\ released' = released + 1

\* a retrieve whose failure is caught and handed to exception_handler
RetrieveCaught(at, next, inWith, responses) ==
    /\ pc = at
    /\ retrieves < MaxRetrieves
    /\ retrieves' = retrieves + 1
    /\ \E resp \in responses :
         LET r == retrieve(resp, serverStatus)
         IN /\ lastRetrieve' = Exchange(resp)
            /\ job' = IF r.ok THEN r.val ELSE job
            /\ errs' = IF r.ok THEN errs ELSE Append(errs, r.exc)
    /\ pc' = next
    /\ UNCHANGED <<utils, wait_for_start, no_color, success_raises, exception_raises,
                   check_ws, tokenRequest, serverStatus, sleepTime, probes,
                   tokenFetches, token, opened, jobAtOpen, emitted, registered,
                   loopWaits, drainWaits, arrived, msgs, exc, openSessions,
                   released>>

\* job = self.retrieve(job_id) at pc `at`, going on at `next`; inside the
\* with block an exception releases the session on its way out
Retrieve(at, next, inWith, responses) ==
    /\ pc = at
    /\ retrieves < MaxRetrieves
    /\ retrieves' = retrieves + 1
    /\ \E resp \in responses :
         LET r == retrieve(resp, serverStatus)
         IN /\ lastRetrieve' = Exchange(resp)
            /\ IF r.ok
               THEN /\ job' = r.val
                    /\ pc' = next
                    /\ UNCHANGED <<exc, openSessions, released>>
               ELSE /\ Propagate(r.exc)
                    /\ job' = job
                    /\ IF inWith THEN SocketIOExit
                       ELSE UNCHANGED <<openSessions, released>>
    /\ UNCHANGED <<utils, wait_for_start, no_color, success_raises, exception_raises,
                   check_ws, tokenRequest, serverStatus, sleepTime, probes,
                   tokenFetches, token, opened, jobAtOpen, emitted, registered,
                   loopWaits, drainWaits, arrived, msgs, errs>>

\* line 594
Retrieve594 == Retrieve("retrieve594", "while595", FALSE, HttpResponses)

\* line 595
While595 ==
    /\ pc = "while595"
    /\ pc' = IF WaitCondition THEN "sleep596" ELSE "if599"
    /\ UNCHANGED <<utils, wait_for_start, no_color, success_raises, exception_raises, check_ws,
                   lastRetrieve, tokenRequest, job, serverStatus, retrieves,
                   sleepTime, probes, tokenFetches, token, openSessions, opened,
                   released, jobAtOpen, emitted, registered, loopWaits,
                   drainWaits, arrived, msgs, errs, exc>>

\* line 596: time.sleep(3)
Sleep596 ==
    /\ pc = "sleep596"
    /\ sleepTime' = sleepTime + 3
    /\ pc' = "retrieve597"
    /\ UNCHANGED <<utils, wait_for_start, no_color, success_raises, exception_raises, check_ws,
                   lastRetrieve, tokenRequest, job, serverStatus, retrieves,
                   probes, tokenFetches, token, openSessions, opened,
                   released, jobAtOpen, emitted, registered, loopWaits,
                   drainWaits, arrived, msgs, errs, exc>>

\* line 597
Retrieve597 == Retrieve("retrieve597", "while595", FALSE, HttpResponses)

\* exception_handler(e) called by get_logs_async itself, followed by its return
ReportAndReturn(e, ehRaises) ==
    /\ errs' = Append(errs, e)
    /\ IF ehRaises THEN Propagate(ExceptionHandlerError)
       ELSE pc' = "returned" /\ exc' = exc

\* lines 599-601
If599 ==
    /\ pc = "if599"
    /\ IF NotStarted
       THEN ReportAndReturn(RefusalError, exception_raises # "never")
       ELSE pc' = "get602" /\ UNCHANGED <<errs, exc>>
    /\ UNCHANGED <<utils, wait_for_start, no_color, success_raises, exception_raises, check_ws,
                   lastRetrieve, tokenRequest, job, serverStatus, retrieves,
                   sleepTime, probes, tokenFetches, token, openSessions, opened,
                   released, jobAtOpen, emitted, registered, loopWaits,
                   drainWaits, arrived, msgs>>

\* lines 602-605: requests.get(host + '/socket.io/') raises when there is no
\* response; otherwise the status code decides
Get602 ==
    /\ pc = "get602"
    /\ probes' = probes + 1
    /\ \E resp \in HttpResponses :
         IF resp.conn = "ConnectionError"
         THEN /\ Propagate(Exception("ConnectionError", "", <<>>))
              /\ UNCHANGED <<errs, check_ws>>
         ELSE /\ check_ws' = resp.status_code
              /\ IF Unavailable(resp)
                 THEN ReportAndReturn(UnavailableError, exception_raises # "never")
                 ELSE pc' = "with608" /\ UNCHANGED <<errs, exc>>
    /\ UNCHANGED <<utils, wait_for_start, no_color, success_raises, exception_raises,
                   lastRetrieve, tokenRequest, job, serverStatus, retrieves,
                   sleepTime, tokenFetches, token, openSessions, opened,
                   released, jobAtOpen, emitted, registered, loopWaits,
                   drainWaits, arrived, msgs>>

\* line 608: with SocketIO(socket_host, verify=True) as socketIO
With608 ==
    /\ pc = "with608"
    /\ SocketIOEnter
    /\ jobAtOpen' = job
    /\ pc' = "token630"
    /\ UNCHANGED <<utils, wait_for_start, no_color, success_raises, exception_raises, check_ws,
                   lastRetrieve, tokenRequest, job, serverStatus, retrieves,
                   sleepTime, probes, tokenFetches, token, released, emitted,
                   registered, loopWaits, drainWaits, arrived, msgs, errs, exc>>

\* line 630: 'auth_token': self._get_websocket_token(job_id)
Token630 ==
    /\ pc = "token630"
    /\ tokenFetches' = tokenFetches + 1
    /\ \E resp \in HttpResponses, body \in TokenBodies :
         LET t == _get_websocket_token(resp, body)
         IN /\ tokenRequest' = IF Exchange(resp) = "ok" /\ body # "notdict"
                                THEN "ok" ELSE "failed"
            /\ IF t.ok
               THEN /\ token' = t.val
                    /\ pc' = "emit632"
                    /\ UNCHANGED <<exc, openSessions, released>>
               ELSE /\ Propagate(t.exc)
                    /\ SocketIOExit
                    /\ token' = token
    /\ UNCHANGED <<utils, wait_for_start, no_color, success_raises, exception_raises,
                   check_ws, lastRetrieve, job, serverStatus, retrieves,
                   sleepTime, probes, opened, jobAtOpen, emitted, registered,
                   loopWaits, drainWaits, arrived, msgs, errs>>

\* an emit whose auth_token is not the token just fetched
Emit632Stale ==
    /\ pc = "emit632"
    /\ emitted' = Append(emitted,
                         [event |-> "job_logging", log_id |-> JobId, last_pos |-> 0,
                          raw_mode |-> TRUE, auth_token |-> NoToken])
    /\ pc' = "on633"
    /\ UNCHANGED <<utils, wait_for_start, no_color, success_raises, exception_raises,
                   check_ws, lastRetrieve, tokenRequest, job, serverStatus,
                   retrieves, sleepTime, probes, tokenFetches, token,
                   openSessions, opened, released, jobAtOpen, registered,
                   loopWaits, drainWaits, arrived, msgs, errs, exc>>

\* lines 626-632: socketIO.emit('job_logging', params)
Emit632 ==
    /\ pc = "emit632"
    /\ emitted' = Append(emitted,
                         [event |-> "job_logging", log_id |-> JobId, last_pos |-> 0,
                          raw_mode |-> TRUE, auth_token |-> token])
    /\ pc' = "on633"
    /\ UNCHANGED <<utils, wait_for_start, no_color, success_raises, exception_raises, check_ws,
                   lastRetrieve, tokenRequest, job, serverStatus, retrieves,
                   sleepTime, probes, tokenFetches, token, openSessions, opened,
                   released, jobAtOpen, registered, loopWaits, drainWaits,
                   arrived, msgs, errs, exc>>

\* line 633: socketIO.on('job', callback)
On633 ==
    /\ pc = "on633"
    /\ registered' = registered \cup {"job"}
    /\ pc' = "while635"
    /\ UNCHANGED <<utils, wait_for_start, no_color, success_raises, exception_raises, check_ws,
                   lastRetrieve, tokenRequest, job, serverStatus, retrieves,
                   sleepTime, probes, tokenFetches, token, openSessions, opened,
                   released, jobAtOpen, emitted, loopWaits, drainWaits,
                   arrived, msgs, errs, exc>>

\* lines 635, 636 and 638: the loop test, and entering socketIO.wait(seconds=3)
While635 ==
    /\ pc = "while635"
    /\ IF StreamCondition
       THEN pc' = "wait636" /\ loopWaits' = loopWaits + 1 /\ drainWaits' = drainWaits
       ELSE pc' = "wait638" /\ drainWaits' = drainWaits + 1 /\ loopWaits' = loopWaits
    /\ UNCHANGED <<utils, wait_for_start, no_color, success_raises, exception_raises, check_ws,
                   lastRetrieve, tokenRequest, job, serverStatus, retrieves,
                   sleepTime, probes, tokenFetches, token, openSessions, opened,
                   released, jobAtOpen, emitted, registered, arrived, msgs,
                   errs, exc>>

\* a handler that is invoked twice for one message
InvokedTwice(calls, new) == calls \o new \o new

\* the invocations of a callback so far, and those the handling of one message
\* adds, in order
Invoked(calls, new) == calls \o new

\* a message of the 'job' event arrives during socketIO.wait and callback
\* handles it; an exception leaving callback leaves wait and the with block
CallbackOn(messages) ==
    /\ pc \in {"wait636", "wait638"}
    /\ "job" \in registered
    /\ \E args \in messages :
         LET h == callback(args, no_color, success_raises,
                           exception_raises # "never", exception_raises = "always")
         IN /\ arrived' = Append(arrived, args)
            /\ msgs' = Invoked(msgs, h.msgs)
            /\ errs' = Invoked(errs, h.errs)
            /\ IF h.exc = NoException
               THEN UNCHANGED <<pc, exc, openSessions, released>>
               ELSE Propagate(h.exc) /\ SocketIOExit
    /\ UNCHANGED <<utils, wait_for_start, no_color, success_raises, exception_raises, check_ws,
                   lastRetrieve, tokenRequest, job, serverStatus, retrieves,
                   sleepTime, probes, tokenFetches, token, opened, jobAtOpen,
                   emitted, registered, loopWaits, drainWaits>>

Callback == Len(arrived) < MaxMessages /\ CallbackOn(Messages)

\* socketIO.wait(seconds=3) of line 636 returns
Wait636 ==
    /\ pc = "wait636"
    /\ pc' = "retrieve637"
    /\ UNCHANGED <<utils, wait_for_start, no_color, success_raises, exception_raises, check_ws,
                   lastRetrieve, tokenRequest, job, serverStatus, retrieves,
                   sleepTime, probes, tokenFetches, token, openSessions, opened,
                   released, jobAtOpen, emitted, registered, loopWaits,
                   drainWaits, arrived, msgs, errs, exc>>

\* line 637
Retrieve637 == Retrieve("retrieve637", "while635", TRUE, HttpResponses)

\* socketIO.wait(seconds=3) of line 638 returns, the with block ends
Wait638 ==
    /\ pc = "wait638"
    /\ SocketIOExit
    /\ pc' = "returned"
    /\ UNCHANGED <<utils, wait_for_start, no_color, success_raises, exception_raises, check_ws,
                   lastRetrieve, tokenRequest, job, serverStatus, retrieves,
                   sleepTime, probes, tokenFetches, token, opened, jobAtOpen,
                   emitted, registered, loopWaits, drainWaits, arrived, msgs,
                   errs, exc>>

(***************************************************************************)
(* The server drives the job: init, then started, then a terminal status   *)
(* (a job may also be cancelled before it starts).  The client sees the    *)
(* status only through retrieve, so a change is taken when a retrieve is   *)
(* the next statement of the client.                                       *)
(***************************************************************************)
ServerAdvance ==
    /\ pc \in {"retrieve594", "retrieve597", "retrieve637"}
    /\ \/ serverStatus = INIT /\ serverStatus' \in JobStatuses \ {INIT}
       \/ serverStatus = STARTED /\ serverStatus' \in TerminalStatuses
    /\ UNCHANGED <<utils, wait_for_start, no_color, success_raises, exception_raises, check_ws,
                   lastRetrieve, tokenRequest, pc, job, retrieves, sleepTime,
                   probes, tokenFetches, token, openSessions, opened, released,
                   jobAtOpen, emitted, registered, loopWaits, drainWaits,
                   arrived, msgs, errs, exc>>

Init ==
    /\ wait_for_start \in BOOLEAN
    /\ no_color \in BOOLEAN
    /\ success_raises \in BOOLEAN
    /\ exception_raises \in ExceptionBehaviours
    /\ pc = "retrieve594"
    /\ job = NoJob
    /\ serverStatus \in JobStatuses
    /\ retrieves = 0
    /\ sleepTime = 0
    /\ probes = 0
    /\ tokenFetches = 0
    /\ token = NoToken
    /\ openSessions = 0
    /\ opened = 0
    /\ released = 0
    /\ jobAtOpen = NoJob
    /\ emitted = <<>>
    /\ registered = {}
    /\ loopWaits = 0
    /\ drainWaits = 0
    /\ arrived = <<>>
    /\ msgs = <<>>
    /\ errs = <<>>
    /\ exc = NoExc
    /\ check_ws = 0
    /\ lastRetrieve = "none"
    /\ tokenRequest = "none"
    /\ sanitizer = "none"
    /\ input = PyStr(<<>>)
    /\ output = <<>>

Next ==
    \/ Retrieve594
    \/ While595
    \/ Sleep596
    \/ Retrieve597
    \/ If599
    \/ Get602
    \/ With608
    \/ Token630
    \/ Emit632
    \/ On633
    \/ While635
    \/ Callback
    \/ Wait636
    \/ Retrieve637
    \/ Wait638
    \/ ServerAdvance

Spec == Init /\ [][Next]_vars

(***************************************************************************)
(* The same invocation when every retrieve succeeds.  The call is one      *)
(* thread of control: its next statement is always executed, every sleep   *)
(* and every wait lasts 3 seconds and then returns.                        *)
(***************************************************************************)
Retrieve594Ok == Retrieve("retrieve594", "while595", FALSE, OkResponses)
Retrieve597Ok == Retrieve("retrieve597", "while595", FALSE, OkResponses)
Retrieve637Ok == Retrieve("retrieve637", "while635", TRUE, OkResponses)

LiveStep ==
    \/ Retrieve594Ok
    \/ While595
    \/ Sleep596
    \/ Retrieve597Ok
    \/ If599
    \/ Get602
    \/ With608
    \/ Token630
    \/ Emit632
    \/ On633
    \/ While635
    \/ Wait636
    \/ Retrieve637Ok
    \/ Wait638

LiveNext == LiveStep \/ Callback \/ ServerAdvance

LiveSpec == Init /\ [][LiveNext]_vars /\ WF_vars(LiveStep)

(***************************************************************************)
(* The message handler alone: one message of the 'job' event is handled by *)
(* callback in the first wait window of a stream whose job is 'started'.   *)
(* The message is drawn from every text of at most MaxLen characters over  *)
(* Alphabet, as 'html' and as the base64 'raw' of a log line, and from     *)
(* the messages of Messages.                                               *)
(***************************************************************************)
\* ESC < > [ a m
Alphabet == {27, 60, 62, 91, 97, 109}
Texts == UNION {[1..n -> Alphabet] : n \in 0..MaxLen}

\* '<h1>hi</h1><div class="panel panel-default">bye'
HtmlPanel == PyStr(<<60, 104, 49, 62, 104, 105, 60, 47, 104, 49, 62, 60, 100, 105, 118,
      32, 99, 108, 97, 115, 115, 61, 34, 112, 97, 110, 101, 108, 32,
      112, 97, 110, 101, 108, 45, 100, 101, 102, 97, 117, 108, 116, 34,
      62, 98, 121, 101>>)
\* '<div><h1>hi</h1></div><div class="panel panel-default">bye'
HtmlDivPanel == PyStr(<<60, 100, 105, 118, 62, 60, 104, 49, 62, 104, 105, 60, 47, 104, 49,
      62, 60, 47, 100, 105, 118, 62, 60, 100, 105, 118, 32, 99, 108, 97,
      115, 115, 61, 34, 112, 97, 110, 101, 108, 32, 112, 97, 110, 101,
      108, 45, 100, 101, 102, 97, 117, 108, 116, 34, 62, 98, 121, 101>>)
\* '\x1B[32mSTATE: Started\x1B[0m'
AnsiStarted == <<27, 91, 51, 50, 109, 83, 84, 65, 84, 69, 58, 32, 83, 116, 97, 114, 116, 101, 100, 27, 91, 48, 109>>
HtmlAnsi == PyStr(AnsiStarted)
\* base64 of '\x1B[32mSTATE: Started\x1B[0m'
RawAnsiStarted == PyStr(<<71, 49, 115, 122, 77, 109, 49, 84, 86, 69, 70, 85, 82, 84, 111,
      103, 85, 51, 82, 104, 99, 110, 82, 108, 90, 66, 116, 98, 77, 71,
      48, 61>>)
\* base64 of 'hello'
RawHello == PyStr(<<97, 71, 86, 115, 98, 71, 56, 61>>)

HandlerMessages ==
    Messages
        \cup {[html |-> PyStr(t)] : t \in Texts}
        \cup {[html |-> HtmlPanel], [html |-> HtmlDivPanel], [html |-> HtmlAnsi],
               [raw |-> RawAnsiStarted], [raw |-> RawHello]}

HandlerInit ==
    /\ wait_for_start \in BOOLEAN
    /\ no_color \in BOOLEAN
    /\ success_raises \in BOOLEAN
    /\ exception_raises \in ExceptionBehaviours
    /\ pc = "wait636"
    /\ job = STARTED
    /\ serverStatus = STARTED
    /\ retrieves = 1
    /\ sleepTime = 0
    /\ probes = 1
    /\ tokenFetches = 1
    /\ token = PyStr(TokenText)
    /\ openSessions = 1
    /\ opened = 1
    /\ released = 0
    /\ jobAtOpen = STARTED
    /\ emitted = <<[event |-> "job_logging", log_id |-> JobId, last_pos |-> 0,
                    raw_mode |-> TRUE, auth_token |-> PyStr(TokenText)]>>
    /\ registered = {"job"}
    /\ loopWaits = 1
    /\ drainWaits = 0
    /\ arrived = <<>>
    /\ msgs = <<>>
    /\ errs = <<>>
    /\ exc = NoExc
    /\ check_ws = 200
    /\ lastRetrieve = "ok"
    /\ tokenRequest = "ok"
    /\ sanitizer = "none"
    /\ input = PyStr(<<>>)
    /\ output = <<>>

Handle == arrived = <<>> /\ CallbackOn(HandlerMessages)

HandlerNext == Handle

HandlerSpec == HandlerInit /\ [][HandlerNext]_vars

(***************************************************************************)
(* The functions of utils.py called on their own: one of them is called    *)
(* with a str or a bytes value of at most MaxLen characters over Alphabet, *)
(* and then once more with the value it returned.  No get_logs_async       *)
(* invocation is under way.                                                *)
(***************************************************************************)
Sanitizers == {"trim_xml_html_tags", "trim_ansi_tags"}
Inputs == {PyStr(t) : t \in Texts} \cup {PyBytes(t) : t \in Texts}

UtilsInit ==
    /\ sanitizer \in Sanitizers
    /\ input \in Inputs
    /\ output = <<>>
    /\ wait_for_start = FALSE
    /\ no_color = FALSE
    /\ success_raises = FALSE
    /\ exception_raises = "never"
    /\ pc = "retrieve594"
    /\ job = NoJob
    /\ serverStatus = INIT
    /\ retrieves = 0
    /\ sleepTime = 0
    /\ probes = 0
    /\ tokenFetches = 0
    /\ token = NoToken
    /\ openSessions = 0
    /\ opened = 0
    /\ released = 0
    /\ jobAtOpen = NoJob
    /\ emitted = <<>>
    /\ registered = {}
    /\ loopWaits = 0
    /\ drainWaits = 0
    /\ arrived = <<>>
    /\ msgs = <<>>
    /\ errs = <<>>
    /\ exc = NoExc
    /\ check_ws = 0
    /\ lastRetrieve = "none"
    /\ tokenRequest = "none"

\* the argument of the next call: the input, then the value last returned
Argument == IF output = <<>> THEN input ELSE output[Len(output)].val

\* a first call, or a second one when the first returned
CanCall(f) ==
    /\ sanitizer = f
    /\ Len(output) < 2
    /\ output # <<>> => output[Len(output)].ok

TrimXmlHtmlTags ==
    /\ CanCall("trim_xml_html_tags")
    /\ output' = Append(output, trim_xml_html_tags(Argument))
    /\ UNCHANGED <<sanitizer, input, wait_for_start, no_color, pc, job,
                   serverStatus, retrieves, sleepTime, probes, tokenFetches,
                   token, openSessions, opened, released, jobAtOpen, emitted,
                   registered, loopWaits, drainWaits, arrived, msgs, errs,
                   success_raises, exception_raises, exc, check_ws,
                   lastRetrieve, tokenRequest>>

TrimAnsiTags ==
    /\ CanCall("trim_ansi_tags")
    /\ output' = Append(output, trim_ansi_tags(Argument))
    /\ UNCHANGED <<sanitizer, input, wait_for_start, no_color, pc, job,
                   serverStatus, retrieves, sleepTime, probes, tokenFetches,
                   token, openSessions, opened, released, jobAtOpen, emitted,
                   registered, loopWaits, drainWaits, arrived, msgs, errs,
                   success_raises, exception_raises, exc, check_ws,
                   lastRetrieve, tokenRequest>>

UtilsNext == TrimXmlHtmlTags \/ TrimAnsiTags

UtilsSpec == UtilsInit /\ [][UtilsNext]_vars

(***************************************************************************)
(* Properties                                                              *)
(***************************************************************************)
Range(seq) == {seq[i] : i \in DOMAIN seq}
Ended == pc \in {"returned", "raised"}
Resolving == {"retrieve594", "while595", "sleep596", "retrieve597"}

\* C1: with wait_for_start false and a first fetched status of 'init', the
\* job is fetched once, the error callback is invoked exactly once, with the
\* refusal error, and until the call has ended no probe is issued, no token
\* fetched, no session opened, nothing emitted and the message callback is
\* never invoked.
C1_RefusalWithoutWaiting ==
    (~wait_for_start /\ job = INIT) =>
        /\ retrieves = 1 /\ sleepTime = 0
        /\ probes = 0 /\ tokenFetches = 0 /\ opened = 0
        /\ emitted = <<>> /\ msgs = <<>>
        /\ pc \in {"while595", "if599", "returned", "raised"}
        /\ (Ended => errs = <<RefusalError>>)
        /\ (~Ended => errs = <<>>)
        /\ (pc = "raised" => exc = "CallbackError")

C1_Witness ==
    /\ ~wait_for_start /\ job = INIT /\ pc = "returned"
    /\ errs = <<RefusalError>>

\* C2: with wait_for_start true the refusal error is never reported; while
\* the fetched status is 'init' the call stays in the resolving loop, with
\* one sleep of 3 between consecutive fetches, and has issued no probe and
\* opened no session; once a fetched status is not 'init' it goes on to the
\* probe, and to the handshake when the probe answers 200.
C2_WaitForStart ==
    wait_for_start =>
        /\ RefusalError \notin Range(errs)
        /\ (job \in {NoJob, INIT} =>
               /\ pc \in Resolving \cup {"raised"}
               /\ probes = 0 /\ tokenFetches = 0 /\ opened = 0
               /\ errs = <<>>)
        /\ (pc \in {"while595", "sleep596"} => sleepTime = 3 * (retrieves - 1))
        /\ (pc = "retrieve597" => sleepTime = 3 * retrieves)
        /\ (pc = "if599" => job # INIT)
        /\ (job \notin {NoJob, INIT} /\ pc \notin {"while595", "if599", "get602"} =>
               /\ probes = 1
               /\ (check_ws = 200 /\ pc # "with608" => opened = 1))

C2_Witness ==
    /\ wait_for_start /\ sleepTime = 6 /\ retrieves = 3
    /\ job \in TerminalStatuses /\ opened = 1 /\ pc = "while635"

\* C3: a call that has opened a session makes no streaming-loop wait when
\* the job was not 'started' at that time, makes exactly one drain wait once
\* it has observed a status that is not 'started', fetches no status after
\* the drain wait, and has released the session exactly once when it ends
\* (the loop is also left, with no drain wait, by an exception while the
\* last observed status is still 'started').
C3_OneDrainWaitOneRelease ==
    /\ drainWaits <= 1
    /\ released <= opened
    /\ (opened = 1 /\ jobAtOpen # STARTED => loopWaits = 0)
    /\ (/\ opened = 1 /\ job # STARTED
        /\ pc \notin {"token630", "emit632", "on633", "while635"}
        => drainWaits = 1)
    /\ (drainWaits = 1 =>
           /\ opened = 1 /\ job # STARTED
           /\ pc \in {"wait638", "returned", "raised"}
           /\ retrieves = 1 + (sleepTime \div 3) + loopWaits)
    /\ (released = 1 => Ended)
    /\ (Ended /\ opened = 1 => released = 1)
    /\ (pc = "returned" /\ opened = 1 => drainWaits = 1)

C3_Witness ==
    /\ pc = "returned" /\ jobAtOpen = STARTED /\ job = "done"
    /\ loopWaits = 1 /\ drainWaits = 1 /\ released = 1 /\ Len(msgs) = 2

\* C4: at most one session is open at any time, and none is open once the
\* call has ended, however it ended.
C4_SessionScoped ==
    /\ openSessions \in {0, 1}
    /\ opened <= 1
    /\ openSessions = opened - released
    /\ (Ended => openSessions = 0)

C4_Witness ==
    /\ pc = "raised" /\ exc = "CallbackError" /\ opened = 1 /\ released = 1
    /\ openSessions = 0 /\ drainWaits = 0

InLoop == pc \in {"while635", "wait636", "retrieve637"}
Closed ==
    /\ pc = "returned" /\ drainWaits = 1
    /\ openSessions = 0 /\ released = 1
Escaped == pc = "raised" /\ exc = "CallbackError" /\ openSessions = 0

\* C5 as stated: when every status fetch succeeds, a call in the streaming
\* loop whose job is terminal on the server eventually makes the drain wait,
\* closes the session and returns, and it leaves the loop only after
\* fetching a status that is not 'started'.
C5_Original ==
    /\ [](InLoop /\ serverStatus \in TerminalStatuses /\ retrieves < MaxRetrieves
            => <>Closed)
    /\ [][InLoop /\ ~InLoop' => job' # STARTED /\ pc' = "wait638"]_vars

\* C5, amended: the same, unless an exception leaves the message handler
\* (the caller's exception_handler raises): the call then ends at once with
\* that exception, the session released, whatever the last fetched status.
C5_Terminates ==
    /\ [](InLoop /\ serverStatus \in TerminalStatuses /\ retrieves < MaxRetrieves
            => <>(Closed \/ Escaped))
    /\ [][InLoop /\ ~InLoop' => (job' # STARTED /\ pc' = "wait638") \/ Escaped']_vars

C5_Witness ==
    /\ Closed /\ jobAtOpen = STARTED /\ loopWaits = 2
    /\ serverStatus \in TerminalStatuses /\ job = serverStatus

RequestErrors ==
    { ApiClientException("Error while sending request to {}"),
      ApiClientException("Error while calling Cloud Deploy : [{}] {}"),
      ApiClientException("Error while reading response from {}") }

JobLogging(t) ==
    [event |-> "job_logging", log_id |-> JobId, last_pos |-> 0,
     raw_mode |-> TRUE, auth_token |-> t]

\* C7: when the token request fails (transport error, error status, body
\* that is not JSON or not an object) the call is not aborted and the error
\* callback is not invoked for it: the token is the falsy placeholder False,
\* 'job_logging' is emitted once with {log_id: job_id, last_pos: 0,
\* raw_mode: true, auth_token: <that token>}, the handler is registered for
\* 'job' and the streaming loop is entered as with a token.
C7_TokenFailureTolerated ==
    /\ tokenFetches <= 1
    /\ (tokenRequest = "none" <=> tokenFetches = 0)
    /\ (tokenRequest = "failed" => token = PyFalse /\ Falsy(token))
    /\ (tokenRequest = "ok" => token.type = "str")
    /\ (tokenFetches = 1 /\ pc = "emit632" =>
           exc = NoExc /\ errs = <<>> /\ openSessions = 1 /\ emitted = <<>>)
    /\ (tokenFetches = 1 /\ pc # "emit632" => emitted = <<JobLogging(token)>>)
    /\ (tokenFetches = 1 /\ pc \notin {"emit632", "on633"} => registered = {"job"})
    /\ (tokenFetches = 1 /\ pc \notin {"emit632", "on633", "while635"} =>
           loopWaits + drainWaits >= 1)
    /\ Range(errs) \cap RequestErrors = {}

C7_Witness ==
    /\ tokenRequest = "failed" /\ token = PyFalse
    /\ emitted = <<JobLogging(PyFalse)>> /\ registered = {"job"}
    /\ pc = "wait636" /\ Len(msgs) = 1 /\ errs = <<>>

\* C8: a retrieve whose HTTP exchange fails (transport, status or unreadable
\* body), at line 594, 597 or 637, ends the call with ApiClientException and
\* is never handed to the error callback; an exception leaves the call from
\* the message handler only when the caller's exception_handler itself
\* raises, so a failure of the per-message pipeline does not end the call.
C8_PollingFailureFatal ==
    /\ (lastRetrieve \notin {"none", "ok"} =>
           /\ pc = "raised" /\ exc = "ApiClientException"
           /\ openSessions = 0)
    /\ (exc = "ApiClientException" => lastRetrieve \notin {"none", "ok"})
    /\ Range(errs) \cap RequestErrors = {}
    /\ (exc = "CallbackError" => exception_raises # "never")
    /\ (exception_raises = "never" /\ errs # <<>> /\ exc = NoExc /\ opened = 1 =>
           pc \in {"wait636", "retrieve637", "while635", "wait638", "returned"})

C8_Witness ==
    /\ lastRetrieve = "transport" /\ pc = "raised" /\ opened = 1
    /\ exception_raises = "never" /\ Len(errs) = 2 /\ released = 1

\* what a step appended to msgs and to errs
NewMsgs == SubSeq(msgs', Len(msgs) + 1, Len(msgs'))
NewErrs == SubSeq(errs', Len(errs) + 1, Len(errs'))
\* the step is callback handling the message m
Handles(m) == arrived' = Append(arrived, m)

\* C9: handling a message that carries an 'error' field, with or without
\* 'raw', invokes the error callback with the stream-level error
\* ApiClientException(<that text>), exactly once and before anything else,
\* and never invokes the message callback; the error callback is invoked a
\* second time only when its first invocation raised, and then with the
\* exception it raised.
C9_ErrorMessage ==
    [][\A m \in Messages :
          Handles(m) /\ "error" \in DOMAIN m =>
              /\ msgs' = msgs
              /\ SubSeq(errs', 1, Len(errs)) = errs
              /\ Len(NewErrs) >= 1
              /\ NewErrs[1] = ApiClientExceptionOf(m.error.val)
              /\ \A i \in 2..Len(NewErrs) : NewErrs[i] = ExceptionHandlerError
              /\ Len(NewErrs) = (IF exception_raises = "never" THEN 1 ELSE 2)
              /\ (exception_raises = "never" => pc' = pc /\ exc' = NoExc)]_vars

C9_Witness ==
    /\ arrived = <<[error |-> Boom, raw |-> RawHi], [error |-> Boom]>>
    /\ errs = <<ApiClientExceptionOf(Boom.val), ApiClientExceptionOf(Boom.val)>>
    /\ msgs = <<>>
    /\ pc = "wait636"

\* C10: handling a message without 'error' either delivers one text to the
\* message callback or hands the exception of the pipeline to the error
\* callback (KeyError for a message with neither 'raw' nor 'html',
\* binascii.Error for an undecodable 'raw', the sanitizer's exception, the
\* exception of the message callback), never neither; the only exception
\* that can leave the handler is one the error callback itself raises.
C10_PipelineErrorsCaught ==
    [][\A m \in Messages :
          Handles(m) /\ "error" \notin DOMAIN m =>
              /\ Len(NewMsgs) <= 1 /\ Len(NewErrs) <= 1
              /\ Len(NewMsgs) + Len(NewErrs) >= 1
              /\ (NewErrs = <<>> => pc' = pc /\ exc' = NoExc /\ ~success_raises)
              /\ (pc' # pc =>
                     /\ pc' = "raised" /\ exc' = "CallbackError"
                     /\ exception_raises # "never")
              /\ (exception_raises = "never" => pc' = pc /\ exc' = NoExc)
              /\ (DOMAIN m = {"status"} =>
                     NewMsgs = <<>> /\ NewErrs = <<KeyError("html")>>)
              /\ (m = [raw |-> RawBadPadding] =>
                     NewMsgs = <<>> /\ NewErrs = <<BinasciiError>>)
              /\ (m = [raw |-> RawNotUtf8] /\ no_color =>
                     /\ NewMsgs = <<>>
                     /\ NewErrs = <<Exception("UnicodeDecodeError", "", <<>>)>>)
              /\ (NewMsgs # <<>> /\ success_raises =>
                     NewErrs = <<SuccessHandlerError>>)]_vars

C10_Witness ==
    /\ arrived = <<[status |-> Boom], [raw |-> RawBadPadding]>>
    /\ errs = <<KeyError("html"), BinasciiError>>
    /\ msgs = <<>>
    /\ pc = "wait636"

\* the streaming loop of lines 635-637
Streaming == pc \in {"while635", "wait636", "retrieve637"}

RawText(m) ==
    /\ DOMAIN m = {"raw"}
    /\ b64decode(m.raw).ok
    /\ Utf8WellFormedFrom(b64decode(m.raw).val.val, 1)

\* C12: with no_color false, handling a message with 'raw' and no 'error'
\* invokes the message callback exactly once, with a text (str) that is the
\* base64-decoded content of 'raw', and not with a bytes value.
C12_RawDeliveredAsText ==
    [][\A m \in Messages :
          Handles(m) /\ RawText(m) /\ ~no_color =>
              /\ Len(NewMsgs) = 1
              /\ NewMsgs[1] = PyStr(Utf8DecodeFrom(b64decode(m.raw).val.val, 1))]_vars

\* the message {raw: base64('hi')} was handled with no_color false and the
\* message callback was invoked with the bytes b'hi'
C12_Witness ==
    /\ ~no_color
    /\ arrived = <<[raw |-> RawHi]>>
    /\ msgs = <<PyBytes(<<104, 105>>)>>
    /\ errs = <<>>

\* the step is callback handling a message whose only field is 'html'
HandlesHtml(m) == Handles(m) /\ DOMAIN m = {"html"}
\* '<div class="panel panel-default">'
PanelDivider == SubSeq(PanelTag, 7, Len(PanelTag))
\* 'hi\nbye\n' and 'hibye\n'
HiNlByeNl == PyStr(<<104, 105, 10, 98, 121, 101, 10>>)
HiByeNl == PyStr(<<104, 105, 98, 121, 101, 10>>)

\* C13 as stated: with no_color false a message with 'html' only is delivered
\* as its text with the divider '<div class="panel panel-default">' turned
\* into a newline, the tags removed and a newline appended;
\* '<h1>hi</h1><div class="panel panel-default">bye' is delivered as
\* 'hi\nbye\n'.
C13_Original ==
    [][\A m \in HandlerMessages :
          HandlesHtml(m) /\ ~no_color =>
              /\ NewMsgs = <<PyStr(SubTagsFrom(Replace(m.html.val, PanelDivider,
                                                       NewLine), 1) \o NewLine)>>
              /\ (m.html = HtmlPanel => NewMsgs = <<HiNlByeNl>>)]_vars

\* C13, amended: with no_color false a message with 'html' only is delivered
\* once, as a text ending in the appended newline; the sequence turned into a
\* newline is '</div><div class="panel panel-default">', and a
\* '<div class="panel panel-default">' that does not follow '</div>' is
\* removed like any tag: '<h1>hi</h1><div class="panel panel-default">bye' is
\* delivered as 'hibye\n' and
\* '<div><h1>hi</h1></div><div class="panel panel-default">bye' as
\* 'hi\nbye\n'.  A text without '<' is delivered unchanged but for the
\* newline, '<a>' is removed and '<>' is kept.
C13_HtmlPath ==
    [][\A m \in HandlerMessages :
          HandlesHtml(m) /\ ~no_color =>
              /\ Len(NewMsgs) = 1
              /\ NewMsgs[1].type = "str"
              /\ Len(NewMsgs[1].val) >= 1
              /\ Len(NewMsgs[1].val) <= Len(m.html.val) + 1
              /\ NewMsgs[1].val[Len(NewMsgs[1].val)] = 10
              /\ NewErrs = (IF success_raises THEN <<SuccessHandlerError>> ELSE <<>>)
              /\ (m.html = HtmlPanel => NewMsgs = <<HiByeNl>>)
              /\ (m.html = HtmlDivPanel => NewMsgs = <<HiNlByeNl>>)
              /\ (m.html = HtmlHi => NewMsgs = <<PyStr(<<104, 105, 10>>)>>)
              /\ (60 \notin Range(m.html.val) =>
                     NewMsgs = <<PyStr(m.html.val \o NewLine)>>)
              /\ (m.html.val = <<60, 97, 62>> => NewMsgs = <<PyStr(NewLine)>>)
              /\ (m.html.val = <<97, 60, 97, 62>> => NewMsgs = <<PyStr(<<97, 10>>)>>)
              /\ (m.html.val = <<60, 62>> => NewMsgs = <<PyStr(<<60, 62, 10>>)>>)]_vars

\* '<h1>hi</h1><div class="panel panel-default">bye' was delivered as 'hibye\n'
C13_Witness ==
    /\ ~no_color
    /\ arrived = <<[html |-> HtmlPanel]>>
    /\ msgs = <<HiByeNl>>
    /\ errs = <<>>

\* 'STATE: Started'
StateStarted == <<83, 84, 65, 84, 69, 58, 32, 83, 116, 97, 114, 116, 101, 100>>
AttributeError ==
    Exception("AttributeError", "'str' object has no attribute 'decode'", <<>>)

\* C14: with no_color true, handling a message without 'error' whose 'raw'
\* decodes to text, or whose only field is 'html', invokes the message
\* callback once with a text holding no ANSI escape sequence and does not
\* invoke the error callback; '\x1B[32mSTATE: Started\x1B[0m' is delivered as
\* 'STATE: Started' on the raw path, and with the appended newline on the
\* html path.
C14_AnsiStripped ==
    [][\A m \in HandlerMessages :
          Handles(m) /\ no_color /\ (RawText(m) \/ DOMAIN m = {"html"}) =>
              /\ Len(NewMsgs) = 1
              /\ NewMsgs[1].type = "str"
              /\ \A i \in 1..Len(NewMsgs[1].val) : AnsiEnd(NewMsgs[1].val, i) = 0
              /\ (~success_raises => NewErrs = <<>>)
              /\ (m = [raw |-> RawAnsiStarted] => NewMsgs = <<PyStr(StateStarted)>>)
              /\ (m = [html |-> HtmlAnsi] =>
                     NewMsgs = <<PyStr(StateStarted \o NewLine)>>)]_vars

\* the html message '\x1B[32mSTATE: Started\x1B[0m' was handled with no_color
\* true: nothing was delivered and the error callback received AttributeError
C14_Witness ==
    /\ no_color
    /\ arrived = <<[html |-> HtmlAnsi]>>
    /\ msgs = <<>>
    /\ errs = <<AttributeError>>

\* the chunks the message callback receives for the messages seq, in order
RECURSIVE Chunks(_)
Chunks(seq) ==
    IF seq = <<>> THEN <<>>
    ELSE Chunks(SubSeq(seq, 1, Len(seq) - 1))
             \o callback(seq[Len(seq)], no_color, success_raises,
                         exception_raises # "never",
                         exception_raises = "always").msgs

Clean(t) == \A i \in 1..Len(t) : TagEnd(t, i) = 0 /\ AnsiEnd(t, i) = 0

\* C16: called with a clean text, as a str, or for trim_ansi_tags also as its
\* UTF-8 bytes, each sanitizer returns that text as a str without raising,
\* and called again with what it returned it returns the same.
C16_SanitizersIdentity ==
    Clean(input.val) /\ (input.type = "str" \/ sanitizer = "trim_ansi_tags") =>
        \A k \in DOMAIN output : output[k] = Returns(PyStr(input.val))

\* trim_ansi_tags was called with the str 'a' and raised AttributeError
C16_Witness ==
    /\ sanitizer = "trim_ansi_tags"
    /\ input = PyStr(<<97>>)
    /\ output = <<Raises(AttributeError)>>

\* C17: the token is fetched at most once per call: not at all before the
\* session is opened, hence in no call that ends in the refusal or the
\* unavailable-channel error, and exactly once, right after the session is
\* opened and before anything is emitted or awaited, in every call that goes
\* on to the subscription; the value fetched is never replaced, and it is the
\* auth_token of the one 'job_logging' subscription.
C17_TokenFetchedOnce ==
    /\ [](tokenFetches <= 1)
    /\ [](opened = 0 => tokenFetches = 0 /\ token = NoToken)
    /\ [](Ended /\ Range(errs) \cap {RefusalError, UnavailableError} # {} =>
             tokenFetches = 0 /\ opened = 0)
    /\ [](opened = 1 /\ pc # "token630" => tokenFetches = 1)
    /\ [](emitted # <<>> =>
             /\ tokenFetches = 1
             /\ emitted = <<JobLogging(token)>>
             /\ token \in {PyStr(TokenText), PyStr(<<>>), PyFalse}
             /\ (token = PyFalse <=> tokenRequest = "failed"))
    /\ [][/\ (tokenFetches' # tokenFetches =>
                 /\ pc = "token630" /\ tokenFetches' = 1
                 /\ emitted = <<>> /\ loopWaits = 0 /\ drainWaits = 0)
          /\ (token' # token => tokenFetches' # tokenFetches)]_vars

\* a call with a token went through two wait windows and the drain wait and
\* returned, having fetched the token once
C17_Witness ==
    /\ pc = "returned" /\ loopWaits = 2 /\ drainWaits = 1
    /\ tokenFetches = 1 /\ token = PyStr(TokenText)
    /\ emitted = <<JobLogging(PyStr(TokenText))>>

\* neither callback of the caller raises
CallbacksReturn == ~success_raises /\ exception_raises = "never"

\* C18: when the caller's callbacks do not raise, the handling of a message
\* invokes exactly one of them, once: the message callback or the error
\* callback; a message is handled, and a callback invoked for it, only while
\* the session is open: never before it is opened and never after it is
\* released.
C18_OneCallbackPerMessage ==
    /\ [](CallbacksReturn => Len(msgs) + Len(errs) = Len(arrived)
                                 \/ (opened = 0 /\ arrived = <<>>))
    /\ [](opened = 0 => arrived = <<>> /\ msgs = <<>>)
    /\ [][/\ (CallbacksReturn =>
                 \A m \in Messages :
                     Handles(m) =>
                         /\ Len(NewMsgs) + Len(NewErrs) = 1
                         /\ openSessions' = 1 /\ pc' = pc)
          /\ (arrived' # arrived =>
                 openSessions = 1 /\ opened = 1 /\ released = 0)
          /\ (openSessions # 1 /\ (msgs' # msgs \/ errs' # errs) =>
                 /\ arrived' = arrived /\ opened = 0 /\ msgs' = msgs
                 /\ errs = <<>>
                 /\ errs' \in {<<RefusalError>>, <<UnavailableError>>})
          /\ (released = 1 =>
                 arrived' = arrived /\ msgs' = msgs /\ errs' = errs)]_vars

\* two messages were handled, one reported and one delivered, and the call
\* has returned with the session released
C18_Witness ==
    /\ CallbacksReturn
    /\ arrived = <<[raw |-> RawBadPadding], [html |-> HtmlHi]>>
    /\ errs = <<BinasciiError>>
    /\ Len(msgs) = 1
    /\ pc = "returned" /\ released = 1
====
